---- MODULE Spec2Model ----
(***************************************************************************)
(* Verification model of the reliable message delivery subsystem           *)
(* (src/messaging/reliable_sender.py) and of the circuit breaker, the     *)
(* dead-letter queue and the message broker of src/reliability.py.  Each   *)
(* subsystem has its own variables and its own specification (Spec and     *)
(* SpecQueue: the sender; SpecBreaker; SpecDlq; SpecDelay:                 *)
(* RetryStrategy.get_delay as a function; SpecBroker and SpecBrokerQueue:  *)
(* ReliableMessageBroker, whose calls are synchronous and each one action) *)
(* and leaves the variables of the others as they are.                     *)
(*                                                                         *)
(* ReliableMessageSender runs on one asyncio event loop: a coroutine runs  *)
(* atomically from one suspension point to the next.  The suspension       *)
(* points of the sender are `await transport.send(envelope)` in            *)
(* _attempt_send, `await asyncio.sleep(delay)` in _delayed_retry and       *)
(* `await asyncio.sleep(1.0)` in process_pending_messages.  Every action   *)
(* below is one such atomic run.                                           *)
(*                                                                         *)
(* Time: every deadline and timer is kept relative to time.time(), in      *)
(* whole seconds left (expires_at - time.time(), the rest of a sleep);     *)
(* Tick is one second passing and lowers them all.  A deadline that has    *)
(* passed reads -1.  Retry delays are computed in quarter seconds so that  *)
(* the 25% jitter of RetryStrategy is exact.  last_attempt holds the       *)
(* ordinal of the transport.send call whose start time it records.         *)
(***************************************************************************)
EXTENDS Integers, Sequences, FiniteSets, Bags, TLC

\* ------------------------------------------------------------------ bounds
MaxMsgs == 1          \* envelopes created by send_message
MaxTransports == 1    \* transports registered
MaxQueued == 2        \* envelopes created under SpecQueue
MaxCalls == 2         \* CircuitBreaker.call invocations in progress at once
MaxClock == 4         \* seconds of time.time() the breaker is watched for
MaxFailures == 4      \* failure_count the breaker is watched up to
MaxSize == 3          \* largest max_size a DeadLetterQueue is built with
MaxAdds == 5          \* add_message calls on a DeadLetterQueue
MaxRetryCount == 7    \* get_delay is applied to 0..MaxRetryCount (and near FloatMaxExp)
MaxPublished == 2     \* messages published to the broker
MaxTime == 7          \* seconds of time.time() the broker is watched for
MaxEnqueued == 4      \* messages published under SpecBrokerQueue

\* ------------------------------------------------------- program constants
LOW == 1
NORMAL == 2
HIGH == 3
CRITICAL == 4
max_retries == 3      \* MessageEnvelope.max_retries default
BatchLimit == 10      \* min(10, len(queue))
SentCap == 1000       \* sent_messages keeps the last 1000
FailedCap == 500      \* failed_messages keeps the last 500
DefaultMaxSize == 10000  \* DeadLetterQueue(max_size=10000)
DefaultLimit == 100      \* get_messages(limit=100)
FloatMaxExp == 1024      \* a float holds values below 2.0**1024 (sys.float_info.max_exp)
MessageMaxRetries == 3   \* Message.max_retries default

\* Python's None in an Optional[float] / Optional[int] field
None == -2

MessagePriority == {LOW, NORMAL, HIGH, CRITICAL}
MessageStatus == {"pending", "sent", "failed", "retrying", "expired"}

Min(a, b) == IF a < b THEN a ELSE b
Max(a, b) == IF a > b THEN a ELSE b

RECURSIVE Pow(_, _)
Pow(b, n) == IF n = 0 THEN 1 ELSE b * Pow(b, n - 1)

\* the last n elements of s: s[-n:]
LastN(s, n) == IF Len(s) > n THEN SubSeq(s, Len(s) - n + 1, Len(s)) ELSE s

\* number of occurrences of x in the sequence s
Count(s, x) == Cardinality({i \in 1..Len(s) : s[i] = x})

VARIABLES
    JSONSCHEMA_AVAILABLE, \* module flag set at import
    retry_strategy,    \* self.retry_strategy
    envelopes,         \* the MessageEnvelope objects, indexed by message id
    pending_messages,  \* keys of the dict pending_messages
    sent_messages,     \* list of envelopes (ids)
    failed_messages,   \* list of envelopes (ids)
    message_queues,    \* priority -> list of envelopes (ids)
    transports,        \* is_available() of each registered transport, in order
    is_running,
    loop,              \* the process_pending_messages coroutine
    sending,           \* bag of transport.send calls in flight
    retry_tasks,       \* bag of _delayed_retry tasks asleep
    hist,              \* per envelope: what has been done to it (observation)
    last_call          \* the latest send_message call rejected, or none yet (observation)

\* src/reliability.py
VARIABLES
    circuit_breaker,   \* a CircuitBreaker: its fields
    now,               \* time.time(), in seconds
    in_call,           \* bag of wrapped functions running inside CircuitBreaker.call
    breaker_obs        \* what the latest breaker step did (observation)

senderVars == <<JSONSCHEMA_AVAILABLE, retry_strategy, envelopes, pending_messages,
                sent_messages, failed_messages, message_queues, transports,
                is_running, loop, sending, retry_tasks, hist, last_call>>

VARIABLES
    dlq,               \* a DeadLetterQueue: messages (the deque) and max_size
    dlq_obs            \* add_message calls so far, latest get_messages (observation)

breakerVars == <<circuit_breaker, now, in_call, breaker_obs>>

\* RetryStrategy.get_delay as a function
VARIABLES
    delay_call         \* a get_delay call: the strategy, its argument, its result

dlqVars == <<dlq, dlq_obs>>

delayVars == <<delay_call>>

\* a ReliableMessageBroker; its self.dlq is the variable dlq, time.time() is now
VARIABLES
    broker_messages,   \* the Message objects published, indexed by message id
    queues,            \* self.queues: the (queue name, deque of ids) items, in dict order
    consumers,         \* keys of self.consumers
    retry_queue,       \* deque of (retry_time, queue_name, message)
    processing,
    consumer_loop,     \* a run_consumer_loop call is between two iterations
    broker_hist,       \* per message: what has been done with it (observation)
    broker_obs         \* what the latest broker step was (observation)

brokerVars == <<broker_messages, queues, consumers, retry_queue, processing,
                consumer_loop, broker_hist, broker_obs>>

reliabilityVars == <<breakerVars, dlqVars, delayVars, brokerVars>>

vars == <<senderVars, reliabilityVars>>

Ids == 1..Len(envelopes)

\* ---------------------------------------------------------- MessageEnvelope
NewEnvelope(priority, expires_at) ==
    [priority |-> priority, expires_at |-> expires_at, retry_count |-> 0,
     max_retries |-> max_retries, status |-> "pending", last_attempt |-> None,
     error_message |-> "None"]

\* time.time() > expires_at: the seconds left are below zero
is_expired(e) == e.expires_at # None /\ 0 > e.expires_at

can_retry(e) ==
    /\ e.retry_count < e.max_retries
    /\ ~is_expired(e)
    /\ e.status \in {"failed", "retrying"}

\* ------------------------------------------------------------ RetryStrategy
\* delays in quarter seconds
DefaultRetryStrategy ==
    [base_delay |-> 4 * 1, max_delay |-> 4 * 60, exponential_base |-> 2,
     jitter |-> TRUE]

\* b**n as far as it matters under min(_, cap): b**n when that is at most
\* cap, and otherwise some power of b above cap (floats reach 2.0**1024,
\* the integers here do not)
RECURSIVE PowUpTo(_, _, _)
PowUpTo(b, n, cap) ==
    IF n = 0 THEN 1
    ELSE IF b <= 1 THEN b
    ELSE IF n <= 8 THEN Pow(b, n)
    ELSE LET r == PowUpTo(b, 8, cap) IN IF r > cap THEN r ELSE r * PowUpTo(b, n - 8, cap)

\* min without the cap: delay = base_delay * exponential_base**retry_count
CappedDelay_uncapped(rs, retry_count) ==
    rs.base_delay * PowUpTo(rs.exponential_base, retry_count, rs.max_delay)

\* delay = min(base_delay * exponential_base**retry_count, max_delay)
CappedDelay(rs, retry_count) ==
    Min(rs.base_delay * PowUpTo(rs.exponential_base, retry_count, rs.max_delay),
        rs.max_delay)

\* `self.exponential_base**retry_count` raises OverflowError: the power of a
\* float is 2.0**1024 or more (exact for exponential_base 1.0 and 2.0)
get_delay_raises(rs, retry_count) ==
    rs.exponential_base >= 2 /\ retry_count >= FloatMaxExp

\* the values random.uniform(-jitter_amount, jitter_amount) is drawn from
JitterRange(rs, retry_count) ==
    IF rs.jitter
    THEN LET jitter_amount == CappedDelay(rs, retry_count) \div 4
         IN  (0 - jitter_amount)..jitter_amount
    ELSE {0}

get_delay(rs, retry_count, u) == Max(0, CappedDelay(rs, retry_count) + u)

\* ---------------------------------------------------------- MessageValidator
Schemas ==
    [game_event |->
        [required |-> {"event_type", "timestamp", "game_id"},
         properties |-> [event_type |-> "string", timestamp |-> "number",
                         game_id |-> "string", play_id |-> "string",
                         team |-> "string", data |-> "object"]],
     error_report |->
        [required |-> {"error_type", "message", "timestamp"},
         properties |-> [error_type |-> "string", message |-> "string",
                         timestamp |-> "number", severity |-> "string",
                         context |-> "object"]],
     simulation_result |->
        [required |-> {"simulation_id", "timestamp", "result"},
         properties |-> [simulation_id |-> "string", timestamp |-> "number",
                         result |-> "object", metrics |-> "object",
                         metadata |-> "object"]]]

\* jsonschema.validate of an object payload (key -> JSON type of its value)
JsonSchemaAccepts(payload, schema) ==
    /\ schema.required \subseteq DOMAIN payload
    /\ \A k \in DOMAIN payload \cap DOMAIN schema.properties :
          payload[k] = schema.properties[k]

\* MessageValidator.validate: the is_valid half of its result
validate(payload, schema_name, available) ==
    IF ~available THEN TRUE
    ELSE IF schema_name \notin DOMAIN Schemas THEN FALSE
    ELSE JsonSchemaAccepts(payload, Schemas[schema_name])

\* payloads and schema names send_message is called with
Payloads ==
    { [event_type |-> "string", timestamp |-> "number", game_id |-> "string"],
      [event_type |-> "string", timestamp |-> "number"],
      [event_type |-> "string", timestamp |-> "string", game_id |-> "string"] }

SchemaNames == {"None", "game_event", "error_report", "no_such_schema"}

TtlValues == {None, 0, 1}

\* ------------------------------------------------------------------- helpers
_select_transport(ts) == \E i \in 1..Len(ts) : ts[i]

\* state threaded through one atomic run of a coroutine
Snap ==
    [envelopes |-> envelopes, pending |-> pending_messages,
     sent |-> sent_messages, failed |-> failed_messages,
     queues |-> message_queues, sending |-> sending, retries |-> retry_tasks,
     hist |-> hist]

_move_to_sent(S, m) ==
    [S EXCEPT !.pending = @ \ {m},
              !.sent = LastN(Append(@, m), SentCap)]

_move_to_failed(S, m) ==
    [S EXCEPT !.pending = @ \ {m},
              !.failed = LastN(Append(@, m), FailedCap)]

\* the attempt goes to the transport without a look at the deadline
BeginAttempt_deadline_unchecked(S, m, by) ==
    IF ~_select_transport(transports)
    THEN S
    ELSE [S EXCEPT !.envelopes[m].last_attempt = S.hist[m].sends + 1,
                    !.sending = @ (+) SetToBag({[msg |-> m, by |-> by]}),
                    !.hist[m].sends = @ + 1]

\* _attempt_send up to `await transport.send(envelope)`; by = who awaits it
BeginAttempt(S, m, by) ==
    IF is_expired(S.envelopes[m])
    THEN _move_to_failed([S EXCEPT !.envelopes[m].status = "expired"], m)
    ELSE IF ~_select_transport(transports)
    THEN S
    ELSE [S EXCEPT !.envelopes[m].last_attempt = S.hist[m].sends + 1,
                    !.sending = @ (+) SetToBag({[msg |-> m, by |-> by]}),
                    !.hist[m].sends = @ + 1]

Started(S, S2) == S2.sending # S.sending

\* _schedule_retry: create_task(_delayed_retry(envelope, delay))
_schedule_retry(S, m, u) ==
    LET delay == get_delay(retry_strategy, S.envelopes[m].retry_count, u)
    IN  [S EXCEPT !.retries =
            @ (+) SetToBag({[msg |-> m, wake |-> (delay + 3) \div 4]})]

\* the except branch records the error and leaves retry_count as it is
EndAttempt_raise_uncounted(S, m, outcome, u) ==
    IF outcome = "ok"
    THEN _move_to_sent([S EXCEPT !.envelopes[m].status = "sent",
                                 !.hist[m].oks = @ + 1], m)
    ELSE LET S1 == [S EXCEPT !.envelopes[m].retry_count =
                                 IF outcome = "false" THEN @ + 1 ELSE @,
                             !.envelopes[m].status = "failed",
                             !.envelopes[m].error_message =
                                 IF outcome = "false" THEN "Transport send failed"
                                                      ELSE "str(e)"]
         IN  IF can_retry(S1.envelopes[m])
             THEN _schedule_retry([S1 EXCEPT !.envelopes[m].status = "retrying"], m, u)
             ELSE _move_to_failed(S1, m)

\* _attempt_send after transport.send returned ("ok", "false") or raised
EndAttempt(S, m, outcome, u) ==
    IF outcome = "ok"
    THEN _move_to_sent([S EXCEPT !.envelopes[m].status = "sent",
                                 !.hist[m].oks = @ + 1], m)
    ELSE LET S1 == [S EXCEPT !.envelopes[m].retry_count = @ + 1,
                             !.envelopes[m].status = "failed",
                             !.envelopes[m].error_message =
                                 IF outcome = "false" THEN "Transport send failed"
                                                      ELSE "str(e)"]
         IN  IF can_retry(S1.envelopes[m])
             THEN _schedule_retry([S1 EXCEPT !.envelopes[m].status = "retrying"], m, u)
             ELSE _move_to_failed(S1, m)

Commit(S) ==
    /\ envelopes' = S.envelopes
    /\ pending_messages' = S.pending
    /\ sent_messages' = S.sent
    /\ failed_messages' = S.failed
    /\ message_queues' = S.queues
    /\ sending' = S.sending
    /\ retry_tasks' = S.retries
    /\ hist' = S.hist


\* --------------------------------------------------- process_pending_messages
\* sorted(MessagePriority, key=lambda p: p.value, reverse=True)
\* sorted(...) without reverse=True
sorted_priorities_ascending == <<LOW, NORMAL, HIGH, CRITICAL>>

sorted_priorities == <<CRITICAL, HIGH, NORMAL, LOW>>

\* range(batch_size - 1): the last envelope of a batch is left behind
batch_size_one_short(queue) == Max(0, Min(BatchLimit, Len(queue)) - 1)

batch_size(queue) == Min(BatchLimit, Len(queue))

\* pc: "init" no loop task, "created" the task exists and has not run yet,
\* "batch"/"send"/"sleep" inside the loop, "done" the coroutine returned.
\* stopped (observation): stop() has been called since the task was created.
IdleLoop ==
    [pc |-> "init", idx |-> 0, rem |-> 0, wake |-> 0, log |-> <<>>, base |-> 0,
     stopped |-> FALSE]

\* The loop body from the current position (priority sorted_priorities[L.idx],
\* L.rem iterations of `for _ in range(batch_size)` left) up to its next
\* suspension: `await transport.send` (pc "send") or `await asyncio.sleep(1.0)`
\* (pc "sleep").  L.log (observation): the envelopes this cycle has called
\* _attempt_send on, in order; L.base: the envelopes that existed when the cycle
\* began.
RECURSIVE RunBatch(_, _)
RunBatch(S, L) ==
    IF L.rem = 0
    THEN IF L.idx = Len(sorted_priorities)
         THEN [s |-> S, l |-> [L EXCEPT !.pc = "sleep", !.idx = 0, !.wake = 1]]
         ELSE RunBatch(S, [L EXCEPT !.idx = @ + 1,
                                    !.rem = batch_size(S.queues[sorted_priorities[L.idx + 1]])])
    ELSE LET p == sorted_priorities[L.idx]
             queue == S.queues[p]
             L1 == [L EXCEPT !.rem = @ - 1]
         IN  IF queue = <<>>
             THEN RunBatch(S, L1)
             ELSE LET m == Head(queue)
                      S1 == [S EXCEPT !.queues[p] = Tail(@)]
                  IN  IF m \in S1.pending
                      THEN LET S2 == BeginAttempt(S1, m, "loop")
                               L2 == [L1 EXCEPT !.log = Append(@, m)]
                           IN  IF Started(S1, S2)
                               THEN [s |-> S2, l |-> [L2 EXCEPT !.pc = "send"]]
                               ELSE RunBatch(S2, L2)
                      ELSE RunBatch(S1, L1)

\* one pass of `while self.is_running:` from its top
StartCycle(S) ==
    RunBatch(S, [pc |-> "batch", idx |-> 1,
                 rem |-> batch_size(S.queues[sorted_priorities[1]]),
                 wake |-> 0, log |-> <<>>, base |-> Len(S.envelopes),
                 stopped |-> loop.stopped])

\* ------------------------------------------------------------ CircuitBreaker
CircuitBreaker(failure_threshold, timeout) ==
    [failure_threshold |-> failure_threshold, timeout |-> timeout,
     failure_count |-> 0, last_failure_time |-> None, state |-> "CLOSED"]

\* the module's global instance: circuit_breaker = CircuitBreaker()
DefaultCircuitBreaker == CircuitBreaker(5, 60)

_on_success(cb) == [cb EXCEPT !.failure_count = 0, !.state = "CLOSED"]

\* the breaker trips when failure_count exceeds the threshold
_on_failure_one_late(cb, t) ==
    LET cb1 == [cb EXCEPT !.failure_count = @ + 1, !.last_failure_time = t]
    IN  IF cb1.failure_count > cb1.failure_threshold
        THEN [cb1 EXCEPT !.state = "OPEN"]
        ELSE cb1

_on_failure(cb, t) ==
    LET cb1 == [cb EXCEPT !.failure_count = @ + 1, !.last_failure_time = t]
    IN  IF cb1.failure_count >= cb1.failure_threshold
        THEN [cb1 EXCEPT !.state = "OPEN"]
        ELSE cb1

\* the open period ends when the timeout is reached, not when it is exceeded
TimeoutElapsed_at_timeout(cb, t) == t - cb.last_failure_time >= cb.timeout

\* `time.time() - self.last_failure_time > self.timeout`
TimeoutElapsed(cb, t) == t - cb.last_failure_time > cb.timeout

\* observation of the breaker: flip changes at every call(); result is what the
\* latest step did; trial: the call concerned was let through from OPEN;
\* streak: wrapped functions that failed since the last one that succeeded;
\* func: the wrapped function the step was about; failed: the wrapped
\* functions that have raised so far
NoBreakerStep == [flip |-> FALSE, result |-> "none", trial |-> FALSE, streak |-> 0,
                  func |-> "none", failed |-> {}]

\* the functions decorated with with_circuit_breaker
Funcs == {"f", "g"}

\* the breaker the wrapper of func goes through: the module's one
\* circuit_breaker, whatever func is
with_circuit_breaker(func) == circuit_breaker

\* ----------------------------------------------------------- DeadLetterQueue
\* deque(maxlen=max_size), empty
DeadLetterQueue(max_size) == [messages |-> <<>>, max_size |-> max_size]

\* a plain deque(): append without maxlen
add_message_unbounded(q, message, error, t) ==
    [q EXCEPT !.messages =
        Append(@, [message |-> message, error |-> error, dlq_timestamp |-> t])]

\* deque.append on a deque with maxlen: when full, the leftmost entry goes
add_message(q, message, error, t) ==
    [q EXCEPT !.messages =
        LastN(Append(@, [message |-> message, error |-> error, dlq_timestamp |-> t]),
              q.max_size)]

\* list(self.messages)[-limit:]
get_messages(q, limit) ==
    IF limit = 0 THEN q.messages
    ELSE IF limit > 0 THEN LastN(q.messages, limit)
    ELSE SubSeq(q.messages, Min(Len(q.messages), 0 - limit) + 1, Len(q.messages))

size(q) == Len(q.messages)

\* added: add_message calls so far (the k-th call adds message k);
\* limit, got, at: the latest get_messages call, its result, and the value of
\* added when it was made
NoDlqStep == [added |-> 0, limit |-> None, got |-> <<>>, at |-> 0]

\* a get_delay(retry_count) call on the strategy rs, u the value
\* random.uniform returns in it; not made yet.  delay, raised: what the call
\* returned, or that it raised; next_delay, next_raised: the same for
\* get_delay(retry_count + 1), evaluated when jitter is off
DelayCall(rs, retry_count, u) ==
    [rs |-> rs, retry_count |-> retry_count, u |-> u, done |-> FALSE,
     delay |-> None, raised |-> FALSE, next_delay |-> None, next_raised |-> FALSE]

NoDelayCall == DelayCall(DefaultRetryStrategy, 0, 0)

\* what is observed of a send_message call: the validator's verdict on its
\* payload and whether the call raised ValueError
NoCall == [is_valid |-> TRUE, raised |-> FALSE]

\* ------------------------------------------------------ ReliableMessageBroker
\* Message(id, payload, timestamp, priority=priority)
Message(priority) ==
    [retry_count |-> 0, max_retries |-> MessageMaxRetries, priority |-> priority]

\* ExponentialBackoff(): delays in seconds
ExponentialBackoff == [base_delay |-> 1, max_delay |-> 60, jitter |-> TRUE]

\* ExponentialBackoff.get_delay(retry_count): the whole numbers of seconds it
\* can return; with jitter the factor 0.5 + random() * 0.5 lies in [0.5, 1)
backoff_get_delay(bo, retry_count) ==
    LET delay == Min(bo.base_delay * Pow(2, retry_count), bo.max_delay)
    IN  IF bo.jitter THEN {d \in 0..delay : 2 * d >= delay /\ d < delay}
                     ELSE {delay}

\* the broker's state threaded through one call
Broker ==
    [messages |-> broker_messages, queues |-> queues, retry_queue |-> retry_queue,
     dlq |-> dlq, hist |-> broker_hist]

\* position of queue_name among the keys of self.queues, 0 if it is not one
QueueIndex(Q, queue_name) ==
    IF \E i \in 1..Len(Q) : Q[i].name = queue_name
    THEN CHOOSE i \in 1..Len(Q) : Q[i].name = queue_name
    ELSE 0

create_queue(Q, queue_name) ==
    IF QueueIndex(Q, queue_name) = 0
    THEN Append(Q, [name |-> queue_name, deque |-> <<>>])
    ELSE Q

\* deque.insert(i, x) for the 0-based position i
Insert(q, i, x) == SubSeq(q, 1, i) \o <<x>> \o SubSeq(q, i + 1, Len(q))

\* the new message goes before the first one of lower or equal priority
InsertByPriority_before_equal(M, queue, m) ==
    LET lower == {i \in 1..Len(queue) : M[m].priority >= M[queue[i]].priority}
    IN  IF lower = {} THEN Append(queue, m)
        ELSE Insert(queue, (CHOOSE i \in lower : \A j \in lower : i <= j) - 1, m)

\* publish's `for i, existing_msg in enumerate(queue)` and the append after it
InsertByPriority(M, queue, m) ==
    LET lower == {i \in 1..Len(queue) : M[m].priority > M[queue[i]].priority}
    IN  IF lower = {} THEN Append(queue, m)
        ELSE Insert(queue, (CHOOSE i \in lower : \A j \in lower : i <= j) - 1, m)

\* observation of one message: consumer calls made with it (handed), those
\* that returned True (oks), process_message calls that found no consumer
\* (unconsumed), retry_queue and dlq entries made for it (retried, dead),
\* returned by a consume_message call made from outside the loop (taken)
NoHistory ==
    [handed |-> 0, oks |-> 0, unconsumed |-> 0, retried |-> 0, dead |-> 0,
     taken |-> FALSE]

\* what the consumer does with a payload: returns True, returns False, raises
Outcomes == {"true", "false", "raise"}

\* the message is sent to the dead-letter queue one failure late
MayRetry_one_more(message) == message.retry_count <= message.max_retries

\* message.retry_count < message.max_retries
MayRetry(message) == message.retry_count < message.max_retries

\* process_message(queue_name, message) at time t, when the consumer ends with
\* outcome and the backoff returns delay
process_message(B, queue_name, m, outcome, delay, t) ==
    IF queue_name \notin consumers
    THEN [B EXCEPT !.hist[m].unconsumed = @ + 1]
    ELSE LET B1 == [B EXCEPT !.hist[m].handed = @ + 1]
         IN  IF outcome = "true"
             THEN [B1 EXCEPT !.hist[m].oks = @ + 1]
             ELSE IF MayRetry(B1.messages[m])
             THEN [B1 EXCEPT
                     !.messages[m].retry_count = @ + 1,
                     !.retry_queue = Append(@, [retry_time |-> t + delay,
                                                queue_name |-> queue_name,
                                                message |-> m]),
                     !.hist[m].retried = @ + 1]
             ELSE [B1 EXCEPT
                     !.dlq = add_message(@, m, IF outcome = "false"
                                               THEN "Max retries exceeded"
                                               ELSE "str(e)", t),
                     !.hist[m].dead = @ + 1]

\* the states process_message can leave, over what the consumer and
\* random.random() can do
ProcessResults(B, queue_name, m, t) ==
    { process_message(B, queue_name, m, outcome, delay, t) :
        outcome \in Outcomes,
        delay \in backoff_get_delay(ExponentialBackoff, B.messages[m].retry_count + 1) }

\* process_message on each (queue_name, message) of todo in turn
RECURSIVE ProcessEach(_, _, _)
ProcessEach(Bs, todo, t) ==
    IF todo = <<>> THEN Bs
    ELSE ProcessEach(UNION { ProcessResults(B, Head(todo).queue_name,
                                            Head(todo).message, t) : B \in Bs },
                     Tail(todo), t)

\* how many entries process_retries' while loop pops: those at the head of
\* retry_queue up to the first one with retry_time > current_time
RECURSIVE ReadyCount(_, _)
ReadyCount(rq, current_time) ==
    IF rq # <<>> /\ Head(rq).retry_time <= current_time
    THEN 1 + ReadyCount(Tail(rq), current_time)
    ELSE 0

process_retries(B, t) ==
    LET n == ReadyCount(B.retry_queue, t)
        ready_retries == SubSeq(B.retry_queue, 1, n)
    IN  ProcessEach({[B EXCEPT !.retry_queue = SubSeq(@, n + 1, Len(@))]},
                    ready_retries, t)

\* `for queue_name in self.queues:` from the i-th key on: consume_message and,
\* if it returned a message, process_message
RECURSIVE ConsumeEach(_, _, _)
ConsumeEach(Bs, i, t) ==
    IF i > Len(queues) THEN Bs
    ELSE ConsumeEach(
            UNION { IF B.queues[i].deque = <<>> THEN {B}
                    ELSE ProcessResults([B EXCEPT !.queues[i].deque = Tail(@)],
                                        B.queues[i].name, Head(B.queues[i].deque), t)
                    : B \in Bs },
            i + 1, t)

\* one pass of run_consumer_loop's while body
Iteration(B, t) ==
    UNION { process_retries(B1, t) : B1 \in ConsumeEach({B}, 1, t) }

CommitBroker(B) ==
    /\ broker_messages' = B.messages
    /\ queues' = B.queues
    /\ retry_queue' = B.retry_queue
    /\ dlq' = B.dlq
    /\ broker_hist' = B.hist

\* flip changes at every process_retries
NoBrokerStep == [flip |-> FALSE]

\* message_broker = ReliableMessageBroker()
BrokerConstructed ==
    /\ broker_messages = <<>>
    /\ queues = <<>>
    /\ consumers = {}
    /\ retry_queue = <<>>
    /\ processing = FALSE
    /\ consumer_loop = FALSE
    /\ broker_hist = <<>>
    /\ broker_obs = NoBrokerStep

\* ---------------------------------------------------------------------- Init
Init ==
    /\ JSONSCHEMA_AVAILABLE \in BOOLEAN
    /\ retry_strategy = DefaultRetryStrategy
    /\ envelopes = <<>>
    /\ pending_messages = {}
    /\ sent_messages = <<>>
    /\ failed_messages = <<>>
    /\ message_queues = [p \in MessagePriority |-> <<>>]
    /\ transports = <<>>
    /\ is_running = FALSE
    /\ loop = IdleLoop
    /\ sending = EmptyBag
    /\ retry_tasks = EmptyBag
    /\ hist = <<>>
    /\ last_call = NoCall
    /\ circuit_breaker = DefaultCircuitBreaker
    /\ now = 0
    /\ in_call = EmptyBag
    /\ breaker_obs = NoBreakerStep
    /\ dlq = DeadLetterQueue(DefaultMaxSize)
    /\ dlq_obs = NoDlqStep
    /\ delay_call = NoDelayCall
    /\ BrokerConstructed

\* ------------------------------------------------------------------- actions
register_transport(available) ==
    /\ Len(transports) < MaxTransports
    /\ transports' = Append(transports, available)
    /\ UNCHANGED <<reliabilityVars, JSONSCHEMA_AVAILABLE, retry_strategy, envelopes, pending_messages,
                   sent_messages, failed_messages, message_queues, is_running,
                   loop, sending, retry_tasks, hist, last_call>>

\* a transport's is_available() changes (WebSocketTransport.connected)
SetConnected(i) ==
    /\ i \in 1..Len(transports)
    /\ transports' = [transports EXCEPT ![i] = ~@]
    /\ UNCHANGED <<reliabilityVars, JSONSCHEMA_AVAILABLE, retry_strategy, envelopes, pending_messages,
                   sent_messages, failed_messages, message_queues, is_running,
                   loop, sending, retry_tasks, hist, last_call>>

\* the validation error is logged and not raised
SendMessageRejects_logged_only(payload, schema_name) == FALSE

SendMessageRejects(payload, schema_name) ==
    schema_name # "None" /\ ~validate(payload, schema_name, JSONSCHEMA_AVAILABLE)

send_message(payload, priority, schema_name, ttl_seconds) ==
    /\ IF SendMessageRejects(payload, schema_name)
       THEN /\ last_call' = [is_valid |-> FALSE, raised |-> TRUE]
            /\ UNCHANGED <<envelopes, pending_messages, sent_messages,
                           failed_messages, message_queues, sending,
                           retry_tasks, hist>>
       ELSE LET m == Len(envelopes) + 1
                expires_at == IF ttl_seconds # None /\ ttl_seconds # 0
                              THEN ttl_seconds ELSE None
                S1 == [Snap EXCEPT
                         !.envelopes = Append(@, NewEnvelope(priority, expires_at)),
                         !.pending = @ \cup {m},
                         !.queues[priority] = Append(@, m),
                         !.hist = Append(@, [sends |-> 0, oks |-> 0, ttl |-> ttl_seconds])]
            IN  /\ Commit(BeginAttempt(S1, m, "send_message"))
                /\ last_call' =
                      [is_valid |-> schema_name = "None"
                                      \/ validate(payload, schema_name, JSONSCHEMA_AVAILABLE),
                       raised |-> FALSE]
    /\ UNCHANGED <<reliabilityVars, JSONSCHEMA_AVAILABLE, retry_strategy, transports, is_running, loop>>


\* transport.send returns (outcome "ok" or "false") or raises for the call t
SendReturns(t, outcome, u) ==
    /\ BagIn(t, sending)
    /\ LET S1 == EndAttempt([Snap EXCEPT !.sending = @ (-) SetToBag({t})],
                        t.msg, outcome, u)
       IN  IF t.by = "loop"
           THEN LET R == RunBatch(S1, [loop EXCEPT !.pc = "batch"])
                IN  Commit(R.s) /\ loop' = R.l
           ELSE Commit(S1) /\ loop' = loop
    /\ UNCHANGED <<reliabilityVars, JSONSCHEMA_AVAILABLE, retry_strategy, transports, is_running, last_call>>

\* _delayed_retry after `await asyncio.sleep(delay)`
_delayed_retry(t) ==
    /\ BagIn(t, retry_tasks)
    /\ t.wake = 0
    /\ LET S1 == [Snap EXCEPT !.retries = @ (-) SetToBag({t})]
       IN  IF t.msg \in pending_messages
           THEN Commit(BeginAttempt(S1, t.msg, "retry"))
           ELSE Commit(S1)
    /\ UNCHANGED <<reliabilityVars, JSONSCHEMA_AVAILABLE, retry_strategy, transports, is_running, loop, last_call>>

\* asyncio.create_task(sender.process_pending_messages()): the coroutine is
\* scheduled; its body has not run yet
create_task ==
    /\ loop.pc \in {"init", "done"}
    /\ loop' = [IdleLoop EXCEPT !.pc = "created"]
    /\ UNCHANGED <<reliabilityVars, JSONSCHEMA_AVAILABLE, retry_strategy, envelopes, pending_messages,
                   sent_messages, failed_messages, message_queues, transports,
                   is_running, sending, retry_tasks, hist, last_call>>

\* the process_pending_messages task runs its first step
process_pending_messages ==
    /\ loop.pc = "created"
    /\ is_running' = TRUE
    /\ LET R == StartCycle(Snap) IN Commit(R.s) /\ loop' = R.l
    /\ UNCHANGED <<reliabilityVars, JSONSCHEMA_AVAILABLE, retry_strategy, transports, last_call>>

\* `await asyncio.sleep(1.0)` returns; `while self.is_running:` is evaluated
LoopWake ==
    /\ loop.pc = "sleep"
    /\ loop.wake = 0
    /\ IF is_running
       THEN LET R == StartCycle(Snap) IN Commit(R.s) /\ loop' = R.l
       ELSE /\ loop' = [IdleLoop EXCEPT !.pc = "done"]
            /\ UNCHANGED <<envelopes, pending_messages, sent_messages,
                           failed_messages, message_queues, sending,
                           retry_tasks, hist>>
    /\ UNCHANGED <<reliabilityVars, JSONSCHEMA_AVAILABLE, retry_strategy, transports, is_running, last_call>>

stop ==
    /\ is_running' = FALSE
    /\ loop' = [loop EXCEPT !.stopped = TRUE]
    /\ UNCHANGED <<reliabilityVars, JSONSCHEMA_AVAILABLE, retry_strategy, envelopes, pending_messages,
                   sent_messages, failed_messages, message_queues, transports,
                   sending, retry_tasks, hist, last_call>>

\* one second passes
Elapse(t) == IF t > 0 THEN t - 1 ELSE t

Tick ==
    /\ envelopes' = [m \in Ids |->
           [envelopes[m] EXCEPT !.expires_at = IF @ = None THEN @ ELSE Max(0 - 1, @ - 1)]]
    /\ retry_tasks' = BagOfAll(LAMBDA t : [t EXCEPT !.wake = Elapse(@)], retry_tasks)
    /\ loop' = [loop EXCEPT !.wake = Elapse(@)]
    /\ UNCHANGED <<reliabilityVars, JSONSCHEMA_AVAILABLE, retry_strategy, pending_messages, sent_messages,
                   failed_messages, message_queues, transports, is_running,
                   sending, hist, last_call>>

Next ==
    \/ \E a \in BOOLEAN : register_transport(a)
    \/ \E i \in 1..MaxTransports : SetConnected(i)
    \/ \E payload \in Payloads, priority \in MessagePriority,
          schema_name \in SchemaNames, ttl_seconds \in TtlValues :
          Len(envelopes) < MaxMsgs
             /\ send_message(payload, priority, schema_name, ttl_seconds)
    \/ \E payload \in Payloads, schema_name \in SchemaNames :
          \* a rejected call creates nothing: it may come at any time
          SendMessageRejects(payload, schema_name)
             /\ send_message(payload, NORMAL, schema_name, None)
    \/ \E t \in BagToSet(sending), outcome \in {"ok", "false", "raise"} :
          \E u \in JitterRange(retry_strategy, envelopes[t.msg].retry_count + 1) :
             SendReturns(t, outcome, u)
    \/ \E t \in BagToSet(retry_tasks) : _delayed_retry(t)
    \/ create_task
    \/ process_pending_messages
    \/ LoopWake
    \/ stop
    \/ Tick

Spec == Init /\ [][Next]_vars

\* ------------------------------------------------------------ observations
Range(q) == {q[i] : i \in 1..Len(q)}

InFlight(m) == {t \in BagToSet(sending) : t.msg = m}

RetriesOf(m) == {t \in BagToSet(retry_tasks) : t.msg = m}

Queued(m) == \E p \in MessagePriority : m \in Range(message_queues[p])

\* how many of pending_messages, sent_messages and failed_messages hold m,
\* counting repeats
Holdings(m) ==
    (IF m \in pending_messages THEN 1 ELSE 0)
    + Count(sent_messages, m) + Count(failed_messages, m)

\* SENT, EXPIRED or moved to failed_messages
Terminal(m) ==
    \/ envelopes[m].status \in {"sent", "expired"}
    \/ m \in Range(failed_messages)

\* ------------------------------------------------------------------ claims

\* C1: every envelope created by send_message is in exactly one of
\* pending_messages, sent_messages and failed_messages, and there only once.
ExactlyOneCollection == \A m \in Ids : Holdings(m) = 1

\* C2: retry_count of every envelope never decreases and never exceeds
\* max_retries.
RetryCountMonotoneBounded ==
    [][\A m \in Ids :
          /\ envelopes'[m].retry_count >= envelopes[m].retry_count
          /\ envelopes'[m].retry_count <= envelopes'[m].max_retries]_vars

\* C3: once an envelope is SENT, EXPIRED or in failed_messages, no step changes
\* its status, retry_count, last_attempt or error_message, and transport.send
\* is not invoked for it again.
TerminalImmutable ==
    [][\A m \in Ids :
          Terminal(m) =>
             /\ envelopes'[m].status = envelopes[m].status
             /\ envelopes'[m].retry_count = envelopes[m].retry_count
             /\ envelopes'[m].last_attempt = envelopes[m].last_attempt
             /\ envelopes'[m].error_message = envelopes[m].error_message
             /\ hist'[m].sends = hist[m].sends]_vars

\* C4: an envelope without a deadline all of whose sends failed and that has
\* come to rest in failed_messages has had transport.send invoked
\* max_retries + 1 times, has error_message set and is counted once by
\* total_failed.
ExhaustedAfterInitialPlusMaxRetries ==
    \A m \in Ids :
       (/\ hist[m].oks = 0
        /\ envelopes[m].expires_at = None
        /\ envelopes[m].status = "failed"
        /\ m \in Range(failed_messages)
        /\ InFlight(m) = {}
        /\ RetriesOf(m) = {})
       => /\ hist[m].sends = envelopes[m].max_retries + 1
          /\ envelopes[m].error_message # "None"
          /\ Count(failed_messages, m) = 1

\* C5: an attempt that finds no available transport counts as a failed attempt:
\* retry_count grows by one, the failure is recorded on the envelope, and a
\* retry is scheduled or the envelope is dead-lettered.  The attempts looked at
\* are the immediate one of send_message (the envelope is new in this step) and
\* the background loop's (the envelope leaves its queue while pending).
NoTransportIsAFailedAttempt ==
    [][\A m \in 1..Len(envelopes') :
          (/\ ~_select_transport(transports)
           /\ \/ m \notin Ids
              \/ /\ m \in pending_messages
                 /\ ~is_expired(envelopes[m])
                 /\ Queued(m)
                 /\ \A p \in MessagePriority : m \notin Range(message_queues'[p]))
          => /\ envelopes'[m].retry_count =
                   (IF m \in Ids THEN envelopes[m].retry_count ELSE 0) + 1
             /\ envelopes'[m].error_message # "None"
             /\ \/ \E t \in BagToSet(retry_tasks') : t.msg = m
                \/ m \in Range(failed_messages')]_vars

\* C6: while a scheduled retry of an envelope has not slept its delay out, no
\* transport.send attempt for that envelope starts.
NoAttemptBeforeRetryDelay ==
    [][\A m \in Ids :
          hist'[m].sends > hist[m].sends
             => \A t \in RetriesOf(m) : t.wake = 0]_vars

\* C7: a send_message call whose payload the validator rejects raises, and the
\* call leaves pending_messages, message_queues, sent_messages and
\* failed_messages as they were, invokes no transport and schedules no retry.
ValidationFailsFast ==
    /\ [](~last_call.is_valid => last_call.raised)
    /\ [][(last_call.is_valid /\ ~last_call'.is_valid)
            => UNCHANGED <<envelopes, pending_messages, message_queues,
                           sent_messages, failed_messages, sending,
                           retry_tasks, hist>>]_vars

\* a call was rejected while an envelope was pending with its send in flight
RejectedWhileBusy ==
    /\ ~last_call.is_valid
    /\ last_call.raised
    /\ pending_messages # {}
    /\ sending # EmptyBag

\* C8: an envelope sent with ttl_seconds = 0 whose transport was tried and
\* failed is EXPIRED once that send has returned; it is never RETRYING, never
\* has a retry task and sees no second transport.send.
TtlZeroExpiresAtOnce ==
    \A m \in Ids :
       (hist[m].ttl = 0 /\ hist[m].oks = 0 /\ hist[m].sends >= 1)
       => /\ envelopes[m].status # "retrying"
          /\ RetriesOf(m) = {}
          /\ hist[m].sends = 1
          /\ InFlight(m) = {} => envelopes[m].status = "expired"

\* a is due before b: higher priority, or the same priority and enqueued first
\* (message ids grow in the order send_message enqueues)
DueBefore(a, b) ==
    \/ envelopes[a].priority > envelopes[b].priority
    \/ envelopes[a].priority = envelopes[b].priority /\ a < b

\* the place of priority p in the order the loop visits the queues
PlaceOf(p) == CHOOSE i \in 1..Len(sorted_priorities) : sorted_priorities[i] = p

\* C9: within one cycle the loop calls _attempt_send in priority order, FIFO
\* within a priority; and (queues no longer than one batch) no envelope that
\* was queued when the cycle began still waits while one due after it has been
\* attempted.
PriorityThenFifo ==
    /\ \A i, j \in 1..Len(loop.log) :
          i < j => DueBefore(loop.log[i], loop.log[j])
    /\ Len(envelopes) <= BatchLimit =>
          \A i \in 1..Len(loop.log), p \in MessagePriority :
             \A k \in 1..Len(message_queues[p]) :
                message_queues[p][k] <= loop.base
                   => ~DueBefore(message_queues[p][k], loop.log[i])

\* LOW was enqueued before CRITICAL and the loop attempted CRITICAL first
CriticalBeforeEarlierLow ==
    /\ Len(loop.log) = 2
    /\ envelopes[loop.log[1]].priority = CRITICAL
    /\ envelopes[loop.log[2]].priority = LOW
    /\ loop.log[2] < loop.log[1]

SendsInFlight(b, m) ==
    CopiesIn([msg |-> m, by |-> "send_message"], b)
    + CopiesIn([msg |-> m, by |-> "loop"], b)
    + CopiesIn([msg |-> m, by |-> "retry"], b)

\* in this step a transport.send call for m ends otherwise than by returning
\* True: it returns False or raises
SendFails(m) ==
    /\ SendsInFlight(sending', m) = SendsInFlight(sending, m) - 1
    /\ hist'[m].oks = hist[m].oks

\* C18: a transport.send that raises is a failed attempt as one that returns
\* False is: retry_count grows by one and an error is recorded; then, if
\* retry_count is below max_retries and the deadline has not passed, the
\* envelope is RETRYING and one retry task is added, and otherwise it is FAILED
\* and appended to failed_messages; the background loop goes on.
RaiseIsAFailedAttempt ==
    [][\A m \in Ids :
          SendFails(m) =>
             /\ envelopes'[m].retry_count = envelopes[m].retry_count + 1
             /\ envelopes'[m].error_message \in {"Transport send failed", "str(e)"}
             /\ IF /\ envelopes'[m].retry_count < envelopes'[m].max_retries
                   /\ ~is_expired(envelopes[m])
                THEN /\ envelopes'[m].status = "retrying"
                     /\ \E w \in 0..retry_strategy.max_delay :
                           retry_tasks' = retry_tasks (+) SetToBag({[msg |-> m, wake |-> w]})
                     /\ failed_messages' = failed_messages
                ELSE /\ envelopes'[m].status = "failed"
                     /\ retry_tasks' = retry_tasks
                     /\ failed_messages' = LastN(Append(failed_messages, m), FailedCap)
                     /\ m \notin pending_messages'
             /\ loop.pc = "send" => loop'.pc \in {"send", "sleep"}]_vars

\* a transport.send raised and the envelope waits for its retry
RaisedAndRetrying ==
    \E m \in Ids :
       /\ envelopes[m].error_message = "str(e)"
       /\ envelopes[m].status = "retrying"
       /\ envelopes[m].retry_count = 1
       /\ RetriesOf(m) # {}

\* in this step _attempt_send is called for the existing envelope m: by its
\* retry task, or by the loop, which takes it from its queue
AttemptStarts(m) ==
    /\ m \in pending_messages
    /\ \/ \E t \in RetriesOf(m) :
             t.wake = 0 /\ retry_tasks' = retry_tasks (-) SetToBag({t})
       \/ /\ Queued(m)
          /\ \A p \in MessagePriority : m \notin Range(message_queues'[p])

\* C19: an attempt that starts after the deadline of its envelope has passed
\* makes the envelope EXPIRED and moves it to failed_messages without calling
\* transport.send, whatever retry_count is; and transport.send is not called
\* for an envelope that has left pending_messages.
ExpiredAtAttemptIsDisposed ==
    [][\A m \in Ids :
          /\ (AttemptStarts(m) /\ is_expired(envelopes[m]))
                => /\ envelopes'[m].status = "expired"
                   /\ Count(failed_messages', m) = Count(failed_messages, m) + 1
                   /\ m \notin pending_messages'
                   /\ hist'[m].sends = hist[m].sends
          /\ m \notin pending_messages => hist'[m].sends = hist[m].sends]_vars

\* an envelope with retries left was found expired by an attempt
ExpiredWithRetriesLeft ==
    \E m \in Ids :
       /\ envelopes[m].status = "expired"
       /\ envelopes[m].retry_count \in 1..(envelopes[m].max_retries - 1)
       /\ m \in Range(failed_messages)
       /\ m \notin pending_messages

\* in this step the transport.send awaited by send_message returns for m, and
\* send_message returns to its caller
SendMessageReturns(m) ==
    CopiesIn([msg |-> m, by |-> "send_message"], sending')
       < CopiesIn([msg |-> m, by |-> "send_message"], sending)

\* C20: when send_message returns and no transport.send for its envelope has
\* failed, the envelope is SENT, is in sent_messages once (total_sent counts
\* it once) and not in pending_messages, and has no retry scheduled.
SendMessageReturnsSent ==
    [][\A m \in Ids :
          (SendMessageReturns(m) /\ envelopes'[m].retry_count = 0)
             => /\ envelopes'[m].status = "sent"
                /\ Count(sent_messages', m) = 1
                /\ m \notin pending_messages'
                /\ \A t \in BagToSet(retry_tasks') : t.msg # m]_vars

\* the loop enters `while self.is_running:` and begins a pass over the queues
CycleStarts ==
    \/ loop.pc = "created" /\ loop'.pc \in {"send", "sleep"}
    \/ /\ loop.pc = "sleep" /\ loop.wake = 0
       /\ loop'.pc = "send" \/ (loop'.pc = "sleep" /\ loop'.wake = 1)

\* C11: once stop() has been called on a sender whose loop task exists, the
\* loop starts no further cycle.
StoppedLoopStartsNoCycle == [][loop.stopped => ~CycleStarts]_vars

\* this step appends the envelope m to failed_messages
Disposed(m) == Count(failed_messages', m) > Count(failed_messages, m)

\* C24: the status recorded when an envelope is moved to failed_messages is
\* EXPIRED if its deadline had passed at that moment, and FAILED if the
\* deadline had not passed and its retries were exhausted.
DisposalStatusMatchesCause ==
    [][\A m \in Ids :
          Disposed(m)
             => IF is_expired(envelopes[m])
                THEN envelopes'[m].status = "expired"
                ELSE /\ envelopes'[m].status = "failed"
                     /\ envelopes'[m].retry_count >= envelopes'[m].max_retries]_vars

\* C27: for every envelope at most one transport.send call is in flight and
\* at most one _delayed_retry task is outstanding, whichever of send_message,
\* the background loop and the delayed retries started them.
OneAttemptAtATime ==
    \A m \in Ids :
       /\ SendsInFlight(sending, m) <= 1
       /\ SendsInFlight(retry_tasks, m) <= 1

\* get_statistics()["pending_by_priority"][p]: len(self.message_queues[p])
pending_by_priority == [p \in MessagePriority |-> Len(message_queues[p])]

\* get_statistics()["total_pending"]: len(self.pending_messages)
total_pending == Cardinality(pending_messages)

\* C29: every envelope in message_queues is in pending_messages, and the
\* values of pending_by_priority sum to at most total_pending.
QueuedArePending ==
    /\ \A m \in Ids : Queued(m) => m \in pending_messages
    /\ pending_by_priority[LOW] + pending_by_priority[NORMAL]
         + pending_by_priority[HIGH] + pending_by_priority[CRITICAL] <= total_pending

\* Two envelopes and the background loop: a sender with one transport
\* registered, jsonschema installed, called without schema_name or ttl_seconds.
InitQueue ==
    /\ JSONSCHEMA_AVAILABLE = TRUE
    /\ retry_strategy = [DefaultRetryStrategy EXCEPT !.jitter = FALSE]
    /\ envelopes = <<>>
    /\ pending_messages = {}
    /\ sent_messages = <<>>
    /\ failed_messages = <<>>
    /\ message_queues = [p \in MessagePriority |-> <<>>]
    /\ transports = <<TRUE>>
    /\ is_running = FALSE
    /\ loop = IdleLoop
    /\ sending = EmptyBag
    /\ retry_tasks = EmptyBag
    /\ hist = <<>>
    /\ last_call = NoCall
    /\ circuit_breaker = DefaultCircuitBreaker
    /\ now = 0
    /\ in_call = EmptyBag
    /\ breaker_obs = NoBreakerStep
    /\ dlq = DeadLetterQueue(DefaultMaxSize)
    /\ dlq_obs = NoDlqStep
    /\ delay_call = NoDelayCall
    /\ BrokerConstructed

NextQueue ==
    \/ SetConnected(1)
    \/ \E priority \in MessagePriority :
          Len(envelopes) < MaxQueued /\ send_message(<<>>, priority, "None", None)
    \/ \E t \in BagToSet(sending), outcome \in {"ok", "false"} :
          \E u \in JitterRange(retry_strategy, envelopes[t.msg].retry_count + 1) :
             SendReturns(t, outcome, u)
    \/ \E t \in BagToSet(retry_tasks) : _delayed_retry(t)
    \/ create_task
    \/ process_pending_messages
    \/ LoopWake
    \/ Tick

SpecQueue == InitQueue /\ [][NextQueue]_vars

\* ------------------------------------------------- CircuitBreaker on its own
\* a ReliableMessageSender as constructed, left alone
SenderConstructed ==
    /\ JSONSCHEMA_AVAILABLE = TRUE
    /\ retry_strategy = DefaultRetryStrategy
    /\ envelopes = <<>>
    /\ pending_messages = {}
    /\ sent_messages = <<>>
    /\ failed_messages = <<>>
    /\ message_queues = [p \in MessagePriority |-> <<>>]
    /\ transports = <<>>
    /\ is_running = FALSE
    /\ loop = IdleLoop
    /\ sending = EmptyBag
    /\ retry_tasks = EmptyBag
    /\ hist = <<>>
    /\ last_call = NoCall

\* constructor arguments the breaker is built with
FailureThresholds == {1, 2, 3}

Timeouts == {0, 2}

InitBreaker ==
    /\ SenderConstructed
    /\ circuit_breaker \in {CircuitBreaker(ft, to) : ft \in FailureThresholds, to \in Timeouts}
    /\ now = 0
    /\ in_call = EmptyBag
    /\ breaker_obs = NoBreakerStep
    /\ dlq = DeadLetterQueue(DefaultMaxSize)
    /\ dlq_obs = NoDlqStep
    /\ delay_call = NoDelayCall
    /\ BrokerConstructed

\* the wrapper of func runs CircuitBreaker.call(func) up to
\* `result = func(*args, **kwargs)`: rejected, or func starts running
call(func) ==
    /\ BagCardinality(in_call) < MaxCalls
    /\ IF /\ with_circuit_breaker(func).state = "OPEN"
          /\ ~TimeoutElapsed(with_circuit_breaker(func), now)
       THEN /\ breaker_obs' = [breaker_obs EXCEPT !.flip = ~@, !.result = "rejected",
                                                  !.trial = FALSE, !.func = func]
            /\ UNCHANGED <<circuit_breaker, in_call>>
       ELSE LET trial == with_circuit_breaker(func).state = "OPEN"
            IN  /\ circuit_breaker' =
                      IF trial THEN [circuit_breaker EXCEPT !.state = "HALF_OPEN"]
                               ELSE circuit_breaker
                /\ in_call' = in_call (+) SetToBag({[trial |-> trial, func |-> func]})
                /\ breaker_obs' = [breaker_obs EXCEPT !.flip = ~@, !.result = "invoked",
                                                      !.trial = trial, !.func = func]
    /\ UNCHANGED <<senderVars, dlqVars, delayVars, brokerVars, now>>

\* the wrapped function of the call c returns (success) or raises
FuncReturns(c, success) ==
    /\ BagIn(c, in_call)
    /\ success \/ circuit_breaker.failure_count < MaxFailures
    /\ in_call' = in_call (-) SetToBag({c})
    /\ circuit_breaker' = IF success THEN _on_success(circuit_breaker)
                                     ELSE _on_failure(circuit_breaker, now)
    /\ breaker_obs' = [breaker_obs EXCEPT
                          !.result = IF success THEN "success" ELSE "failure",
                          !.trial = c.trial,
                          !.streak = IF success THEN 0 ELSE @ + 1,
                          !.func = c.func,
                          !.failed = IF success THEN @ ELSE @ \cup {c.func}]
    /\ UNCHANGED <<senderVars, dlqVars, delayVars, brokerVars, now>>

\* time.time() moves on by one second
Advance ==
    /\ now < MaxClock
    /\ now' = now + 1
    /\ UNCHANGED <<senderVars, dlqVars, delayVars, brokerVars, circuit_breaker, in_call,
                   breaker_obs>>

NextBreaker ==
    \/ \E func \in Funcs : call(func)
    \/ \E c \in BagToSet(in_call), success \in BOOLEAN : FuncReturns(c, success)
    \/ Advance

SpecBreaker == InitBreaker /\ [][NextBreaker]_vars

\* this step is a call() / the return of a wrapped function that failed /
\* that succeeded
CallMade == breaker_obs'.flip # breaker_obs.flip

FuncFailed == breaker_obs'.streak = breaker_obs.streak + 1

FuncSucceeded ==
    /\ BagCardinality(in_call') < BagCardinality(in_call)
    /\ breaker_obs'.result = "success"

\* C12: a call() made while the breaker is OPEN and no more than timeout has
\* passed since last_failure_time is rejected: the wrapped function is not
\* invoked and failure_count, last_failure_time and state stay as they were.
OpenRejectsUnchanged ==
    [][(/\ CallMade
        /\ circuit_breaker.state = "OPEN"
        /\ now - circuit_breaker.last_failure_time <= circuit_breaker.timeout)
       => /\ breaker_obs'.result = "rejected"
          /\ in_call' = in_call
          /\ circuit_breaker' = circuit_breaker]_vars

\* a call was rejected exactly timeout seconds after the last failure
RejectedAtTimeout ==
    /\ breaker_obs.result = "rejected"
    /\ circuit_breaker.state = "OPEN"
    /\ circuit_breaker.timeout > 0
    /\ now - circuit_breaker.last_failure_time = circuit_breaker.timeout

\* C13: a CLOSED breaker has seen fewer than failure_threshold consecutive
\* failures; the failure that makes them failure_threshold opens it and sets
\* last_failure_time to the time of that failure, an earlier one leaves it
\* CLOSED; a success in CLOSED sets failure_count to 0 and leaves it CLOSED.
TripsExactlyAtThreshold ==
    /\ [](circuit_breaker.state = "CLOSED"
            => breaker_obs.streak < circuit_breaker.failure_threshold)
    /\ [][(circuit_breaker.state = "CLOSED" /\ FuncFailed)
            => /\ circuit_breaker'.state = "OPEN"
                    <=> breaker_obs'.streak = circuit_breaker.failure_threshold
               /\ circuit_breaker'.state \in {"OPEN", "CLOSED"}
               /\ circuit_breaker'.state = "OPEN"
                    => circuit_breaker'.last_failure_time = now]_vars
    /\ [][(circuit_breaker.state = "CLOSED" /\ FuncSucceeded)
            => /\ circuit_breaker'.failure_count = 0
               /\ circuit_breaker'.state = "CLOSED"]_vars

\* the third consecutive failure has just opened a breaker of threshold 3
ThirdFailureOpened ==
    /\ circuit_breaker.failure_threshold = 3
    /\ breaker_obs.result = "failure"
    /\ breaker_obs.streak = 3
    /\ circuit_breaker.state = "OPEN"
    /\ circuit_breaker.last_failure_time = now

\* C14: a call() made in OPEN more than timeout after last_failure_time is let
\* through with the breaker HALF_OPEN; when that trial call succeeds the
\* breaker is CLOSED with failure_count 0, when it fails the breaker is OPEN
\* with last_failure_time the time of the failure.
TrialDecides ==
    /\ [][(/\ CallMade
            /\ circuit_breaker.state = "OPEN"
            /\ now - circuit_breaker.last_failure_time > circuit_breaker.timeout)
           => /\ breaker_obs'.result = "invoked"
              /\ circuit_breaker'.state = "HALF_OPEN"]_vars
    /\ [][(FuncSucceeded /\ breaker_obs'.trial)
           => /\ circuit_breaker'.state = "CLOSED"
              /\ circuit_breaker'.failure_count = 0]_vars
    /\ [][(FuncFailed /\ breaker_obs'.trial)
           => /\ circuit_breaker'.state = "OPEN"
              /\ circuit_breaker'.last_failure_time = now]_vars

\* C25: while the breaker is HALF_OPEN and its trial call has not returned, a
\* further call() does not invoke the wrapped function.
HalfOpenAdmitsOneTrial ==
    [][(/\ CallMade
        /\ circuit_breaker.state = "HALF_OPEN"
        /\ \E c \in BagToSet(in_call) : c.trial)
       => /\ breaker_obs'.result = "rejected"
          /\ in_call' = in_call]_vars

\* C26: breaker state is per wrapped function: when one wrapped function
\* fails, the failure count and state guarding every other wrapped function
\* stay as they were, and a call to a wrapped function that has not failed
\* itself is never rejected.
BreakerStatePerCallable ==
    /\ [][\A g \in Funcs :
            (FuncFailed /\ breaker_obs'.func # g)
               => /\ with_circuit_breaker(g)'.failure_count
                        = with_circuit_breaker(g).failure_count
                  /\ with_circuit_breaker(g)'.state = with_circuit_breaker(g).state]_vars
    /\ [][(CallMade /\ breaker_obs'.result = "rejected")
            => breaker_obs'.func \in breaker_obs.failed]_vars

\* ------------------------------------------------ DeadLetterQueue on its own
\* the module's breaker, left alone
BreakerConstructed ==
    /\ circuit_breaker = DefaultCircuitBreaker
    /\ now = 0
    /\ in_call = EmptyBag
    /\ breaker_obs = NoBreakerStep

\* limits get_messages is called with
Limits == {0, 1, 2, DefaultLimit}

InitDlq ==
    /\ SenderConstructed
    /\ BreakerConstructed
    /\ dlq \in {DeadLetterQueue(max_size) : max_size \in 0..MaxSize}
    /\ dlq_obs = NoDlqStep
    /\ delay_call = NoDelayCall
    /\ BrokerConstructed

\* dlq.add_message(message, error) for the next message to fail
AddMessage(error) ==
    /\ dlq_obs.added < MaxAdds
    /\ dlq' = add_message(dlq, dlq_obs.added + 1, error, now)
    /\ dlq_obs' = [dlq_obs EXCEPT !.added = @ + 1]
    /\ UNCHANGED <<senderVars, breakerVars, delayVars, brokerVars>>

\* dlq.get_messages(limit)
GetMessages(limit) ==
    /\ dlq_obs' = [dlq_obs EXCEPT !.limit = limit, !.got = get_messages(dlq, limit),
                                  !.at = dlq_obs.added]
    /\ UNCHANGED <<senderVars, breakerVars, delayVars, brokerVars, dlq>>

NextDlq ==
    \/ \E error \in {"Max retries exceeded", "str(e)"} : AddMessage(error)
    \/ \E limit \in Limits : GetMessages(limit)

SpecDlq == InitDlq /\ [][NextDlq]_vars

\* C15: size() never exceeds max_size; what the queue retains are the latest
\* min(added, max_size) entries added (so an add at capacity evicts the oldest
\* one and nothing else), in insertion order; get_messages returns entries in
\* insertion order, and all the retained ones when limit covers them.
DlqKeepsNewestInOrder ==
    /\ size(dlq) <= dlq.max_size
    /\ size(dlq) = Min(dlq_obs.added, dlq.max_size)
    /\ \A i \in 1..size(dlq) :
          dlq.messages[i].message = dlq_obs.added - size(dlq) + i
    /\ \A i, j \in 1..Len(dlq_obs.got) :
          i < j => dlq_obs.got[i].message < dlq_obs.got[j].message
    /\ (dlq_obs.limit # None /\ dlq_obs.limit >= Min(dlq_obs.at, dlq.max_size))
          => /\ Len(dlq_obs.got) = Min(dlq_obs.at, dlq.max_size)
             /\ \A i \in 1..Len(dlq_obs.got) :
                   dlq_obs.got[i].message = dlq_obs.at - Len(dlq_obs.got) + i

\* a full queue of three has taken two more entries and was read in full
FullQueueEvictedAndRead ==
    /\ dlq.max_size = 3
    /\ dlq_obs.added = 5
    /\ dlq_obs.at = 5
    /\ dlq_obs.limit = DefaultLimit
    /\ Len(dlq_obs.got) = 3

\* C30: for every limit >= 0, limit = 0 included, get_messages(limit) returns
\* the min(limit, size()) most recently added entries in insertion order, so
\* never more than limit of them.
GetMessagesAtMostLimit ==
    (dlq_obs.limit # None /\ dlq_obs.limit >= 0)
       => /\ Len(dlq_obs.got) <= dlq_obs.limit
          /\ Len(dlq_obs.got) = Min(dlq_obs.limit, Min(dlq_obs.at, dlq.max_size))
          /\ \A i \in 1..Len(dlq_obs.got) :
                dlq_obs.got[i].message = dlq_obs.at - Len(dlq_obs.got) + i

\* ------------------------------------------------- RetryStrategy.get_delay
\* the module's dead-letter queue, left alone
DlqConstructed ==
    /\ dlq = DeadLetterQueue(DefaultMaxSize)
    /\ dlq_obs = NoDlqStep

\* strategies get_delay is applied on: delays in quarter seconds (0 s, 1 s,
\* 2 s; 0 s, 5 s, 60 s), exponential_base 1.0 and 2.0
Strategies ==
    { [base_delay |-> b, max_delay |-> m, exponential_base |-> e, jitter |-> j] :
        b \in {0, 4 * 1, 4 * 2}, m \in {0, 4 * 5, 4 * 60}, e \in {1, 2}, j \in BOOLEAN }

\* retry counts: the small ones and those around the largest power a float holds
RetryCounts == 0..MaxRetryCount \cup {FloatMaxExp - 2, FloatMaxExp - 1, FloatMaxExp}

InitDelay ==
    /\ SenderConstructed
    /\ BreakerConstructed
    /\ DlqConstructed
    /\ BrokerConstructed
    /\ delay_call \in
          { DelayCall(rs, n, u) :
              rs \in Strategies, n \in RetryCounts,
              u \in UNION { JitterRange(r, k) : r \in Strategies, k \in 0..MaxRetryCount } }
    /\ get_delay_raises(delay_call.rs, delay_call.retry_count)
         \/ delay_call.u \in JitterRange(delay_call.rs, delay_call.retry_count)

\* rs.get_delay(retry_count) is called (and, without jitter, rs.get_delay(retry_count + 1))
GetDelay ==
    /\ ~delay_call.done
    /\ LET rs == delay_call.rs
           n == delay_call.retry_count
           raises == get_delay_raises(rs, n)
           next_raises == get_delay_raises(rs, n + 1)
       IN  delay_call' =
             [delay_call EXCEPT
                !.done = TRUE,
                !.raised = raises,
                !.delay = IF raises THEN None ELSE get_delay(rs, n, delay_call.u),
                !.next_raised = ~rs.jitter /\ next_raises,
                !.next_delay = IF rs.jitter \/ next_raises THEN None
                               ELSE get_delay(rs, n + 1, 0)]
    /\ UNCHANGED <<senderVars, breakerVars, dlqVars, brokerVars>>

NextDelay == GetDelay

SpecDelay == InitDelay /\ [][NextDelay]_vars

\* C16 as stated: the delay get_delay returns is at most max_delay, with
\* jitter or without.
DelayAtMostMaxDelay ==
    (delay_call.done /\ ~delay_call.raised)
       => delay_call.delay <= delay_call.rs.max_delay

\* C16: the delay get_delay returns is at most max_delay when jitter is off,
\* and at most max_delay plus a quarter of it when jitter is on.
DelayAtMostJitteredMaxDelay ==
    (delay_call.done /\ ~delay_call.raised)
       => IF delay_call.rs.jitter
          THEN 4 * delay_call.delay <= 5 * delay_call.rs.max_delay
          ELSE delay_call.delay <= delay_call.rs.max_delay

\* jitter has put a capped delay above max_delay
JitterAboveCap ==
    /\ delay_call.done
    /\ delay_call.rs.jitter
    /\ delay_call.retry_count > 0
    /\ delay_call.delay > delay_call.rs.max_delay

\* C17: without jitter get_delay(n) is min(base_delay * exponential_base^n,
\* max_delay), that is: get_delay(0) = min(base_delay, max_delay) and
\* get_delay(n + 1) = min(exponential_base * get_delay(n), max_delay); and
\* get_delay(n) <= get_delay(n + 1).  Both calls return a delay.
NoJitterDelayIsCappedPower ==
    (delay_call.done /\ ~delay_call.rs.jitter)
       => /\ ~delay_call.raised
          /\ ~delay_call.next_raised
          /\ delay_call.retry_count = 0
                => delay_call.delay = Min(delay_call.rs.base_delay, delay_call.rs.max_delay)
          /\ delay_call.next_delay =
                Min(delay_call.rs.exponential_base * delay_call.delay,
                    delay_call.rs.max_delay)
          /\ delay_call.delay <= delay_call.next_delay

\* ------------------------------------------ ReliableMessageBroker on its own
\* queue names and priorities the broker is called with
QueueNames == {"simulation_events", "replies"}

Priorities == {0, 1}

\* max_iterations arguments of run_consumer_loop
IterationLimits == {None, 1}

InitBroker ==
    /\ SenderConstructed
    /\ BreakerConstructed
    /\ DlqConstructed
    /\ delay_call = NoDelayCall
    /\ BrokerConstructed

publish(queue_name, priority) ==
    /\ LET m == Len(broker_messages) + 1
           M == Append(broker_messages, Message(priority))
           Q == create_queue(queues, queue_name)
           i == QueueIndex(Q, queue_name)
       IN  /\ broker_messages' = M
           /\ queues' = [Q EXCEPT ![i].deque = InsertByPriority(M, @, m)]
           /\ broker_hist' = Append(broker_hist, NoHistory)
    /\ UNCHANGED <<senderVars, breakerVars, dlqVars, delayVars, consumers, retry_queue,
                   processing, consumer_loop, broker_obs>>

subscribe(queue_name) ==
    /\ queues' = create_queue(queues, queue_name)
    /\ consumers' = consumers \cup {queue_name}
    /\ UNCHANGED <<senderVars, breakerVars, dlqVars, delayVars, broker_messages,
                   retry_queue, processing, consumer_loop, broker_hist, broker_obs>>

\* consume_message(queue_name) called from outside the loop, returning a message
consume_message(queue_name) ==
    /\ LET i == QueueIndex(queues, queue_name)
       IN  /\ i # 0
           /\ queues[i].deque # <<>>
           /\ queues' = [queues EXCEPT ![i].deque = Tail(@)]
           /\ broker_hist' = [broker_hist EXCEPT ![Head(queues[i].deque)].taken = TRUE]
    /\ UNCHANGED <<senderVars, breakerVars, dlqVars, delayVars, broker_messages,
                   consumers, retry_queue, processing, consumer_loop, broker_obs>>

\* process_retries() called from outside the loop
ProcessRetries ==
    /\ \E B \in process_retries(Broker, now) : CommitBroker(B)
    /\ broker_obs' = [broker_obs EXCEPT !.flip = ~@]
    /\ UNCHANGED <<senderVars, breakerVars, dlq_obs, delayVars, consumers, processing,
                   consumer_loop>>

\* run_consumer_loop(max_iterations) up to the end of its first iteration
run_consumer_loop(max_iterations) ==
    /\ ~consumer_loop
    /\ processing' = TRUE
    /\ \E B \in Iteration(Broker, now) : CommitBroker(B)
    /\ consumer_loop' = (max_iterations = None)
    /\ broker_obs' = [broker_obs EXCEPT !.flip = ~@]
    /\ UNCHANGED <<senderVars, breakerVars, dlq_obs, delayVars, consumers>>

\* `while self.processing and ...` is evaluated again: one more iteration, or
\* the call returns
NextIteration ==
    /\ consumer_loop
    /\ IF processing
       THEN /\ \E B \in Iteration(Broker, now) : CommitBroker(B)
            /\ broker_obs' = [broker_obs EXCEPT !.flip = ~@]
            /\ UNCHANGED consumer_loop
       ELSE /\ consumer_loop' = FALSE
            /\ UNCHANGED <<broker_messages, queues, retry_queue, dlq, broker_hist,
                           broker_obs>>
    /\ UNCHANGED <<senderVars, breakerVars, dlq_obs, delayVars, consumers, processing>>

\* ReliableMessageBroker.stop()
broker_stop ==
    /\ processing' = FALSE
    /\ UNCHANGED <<senderVars, breakerVars, dlqVars, delayVars, broker_messages, queues,
                   consumers, retry_queue, consumer_loop, broker_hist, broker_obs>>

\* a second of time.time() passes (time.sleep(0.1) of the loop included)
TimePasses ==
    /\ now < MaxTime
    /\ now' = now + 1
    /\ UNCHANGED <<senderVars, circuit_breaker, in_call, breaker_obs, dlqVars,
                   delayVars, brokerVars>>

NextBroker ==
    \/ \E queue_name \in QueueNames, priority \in Priorities :
          Len(broker_messages) < MaxPublished /\ publish(queue_name, priority)
    \/ \E queue_name \in QueueNames : subscribe(queue_name)
    \/ \E queue_name \in QueueNames : consume_message(queue_name)
    \/ ProcessRetries
    \/ \E max_iterations \in IterationLimits : run_consumer_loop(max_iterations)
    \/ NextIteration
    \/ broker_stop
    \/ TimePasses

SpecBroker == InitBroker /\ [][NextBroker]_vars

\* ids of the messages published so far
Published == 1..Len(broker_messages)

\* entries of the broker's queues, of retry_queue and of the dead-letter queue
\* that hold the message m
InQueues(m) ==
    Cardinality({ij \in (1..Len(queues)) \X Published :
                    /\ ij[2] <= Len(queues[ij[1]].deque)
                    /\ queues[ij[1]].deque[ij[2]] = m})

InRetryQueue(m) == Cardinality({i \in 1..Len(retry_queue) : retry_queue[i].message = m})

InDlq(m) == Cardinality({i \in 1..size(dlq) : dlq.messages[i].message = m})

\* C21: a message every consumer call on which has failed has retry_count at
\* most max_retries and was handed to the consumer at most max_retries + 1
\* times, each failure putting it on retry_queue except the one at
\* retry_count = max_retries, which adds it to the dead-letter queue, once and
\* with an error reason; from then on it is in no queue and not on retry_queue,
\* and it is neither retried nor handed to the consumer again.
FailingMessageDeadLetteredOnce ==
    /\ [](\A m \in Published :
            /\ broker_messages[m].retry_count <= broker_messages[m].max_retries
            /\ broker_hist[m].oks = 0
                 => /\ broker_hist[m].handed <= broker_messages[m].max_retries + 1
                    /\ broker_hist[m].handed = broker_hist[m].retried + broker_hist[m].dead
                    /\ broker_hist[m].retried = broker_messages[m].retry_count
                    /\ broker_hist[m].dead <= 1
                    /\ InDlq(m) = broker_hist[m].dead
                    /\ broker_hist[m].dead = 1
                         <=> broker_hist[m].handed = broker_messages[m].max_retries + 1
                    /\ broker_hist[m].dead = 1
                         => /\ InQueues(m) = 0
                            /\ InRetryQueue(m) = 0
                            /\ \A i \in 1..size(dlq) :
                                  dlq.messages[i].message = m
                                     => dlq.messages[i].error
                                           \in {"Max retries exceeded", "str(e)"})
    /\ [][\A m \in Published :
            broker_hist[m].dead > 0
               => /\ broker_hist'[m].handed = broker_hist[m].handed
                  /\ broker_hist'[m].retried = broker_hist[m].retried
                  /\ broker_hist'[m].dead = broker_hist[m].dead]_vars

\* a message has failed four times and is in the dead-letter queue
DeadLetteredAfterFourFailures ==
    \E m \in Published :
       /\ broker_hist[m].oks = 0
       /\ broker_hist[m].handed = 4
       /\ broker_messages[m].retry_count = 3
       /\ InDlq(m) = 1

\* C22: every published message (that no call of consume_message from outside
\* the loop took away) is in exactly one place: in its queue, in retry_queue,
\* in the dead-letter queue, or processed by a consumer that returned True.
NoMessageLostOrDuplicated ==
    \A m \in Published :
       ~broker_hist[m].taken
          => InQueues(m) + InRetryQueue(m) + InDlq(m) + broker_hist[m].oks = 1

\* this step runs process_retries, on its own or at the end of a loop iteration
RetriesProcessed == broker_obs'.flip # broker_obs.flip

\* C28: process_retries processes every entry of retry_queue whose retry_time
\* is at or before the current time: when it returns, no entry with such a
\* retry_time is waiting on retry_queue, behind whatever other entry.
DueRetriesAllProcessed ==
    [][RetriesProcessed
         => \A i \in 1..Len(retry_queue') : retry_queue'[i].retry_time > now]_vars

\* ----------------------------------------- the broker's queues on their own
\* publish and consume_message calls only
NextBrokerQueue ==
    \/ \E queue_name \in QueueNames, priority \in Priorities :
          Len(broker_messages) < MaxEnqueued /\ publish(queue_name, priority)
    \/ \E queue_name \in QueueNames : consume_message(queue_name)

SpecBrokerQueue == InitBroker /\ [][NextBrokerQueue]_vars

\* a comes before b in a queue: higher priority, or equal priority and
\* published earlier
Precedes(a, b) ==
    \/ broker_messages[a].priority > broker_messages[b].priority
    \/ /\ broker_messages[a].priority = broker_messages[b].priority
       /\ a < b

\* C23: every queue of the broker is ordered by priority descending, published
\* first coming first among equal priorities; and the message a consume_message
\* call takes from a queue comes before every other message of that queue.
QueuesPriorityThenFifo ==
    /\ [](\A k \in 1..Len(queues) :
            \A i, j \in 1..Len(queues[k].deque) :
               i < j => Precedes(queues[k].deque[i], queues[k].deque[j]))
    /\ [][\A m \in Published :
            (broker_hist'[m].taken /\ ~broker_hist[m].taken)
               => \A k \in 1..Len(queues) :
                     m \in Range(queues[k].deque)
                        => \A x \in Range(queues[k].deque) \ {m} : Precedes(m, x)]_vars

\* a message was inserted between a higher and a lower priority, behind an
\* earlier one of its own priority, and the head of that queue was consumed
InsertedInTheMiddle ==
    \E k \in 1..Len(queues) :
       /\ Len(queues[k].deque) = 3
       /\ queues[k].deque[1] < queues[k].deque[2]
       /\ queues[k].deque[2] > queues[k].deque[3]
       /\ broker_messages[queues[k].deque[1]].priority
            = broker_messages[queues[k].deque[2]].priority
       /\ \E m \in Published :
             /\ broker_hist[m].taken
             /\ broker_messages[m].priority = 1
====
